---- MODULE Spec2Model ----
(***************************************************************************)
(* Event record reconciliation of the scrapper tool: the Event model, the  *)
(* merge / deduplicate functions of BaseStorage and the ExcelStorage       *)
(* backend (load, save, update, delete, expiry sweep) over one workbook.   *)
(***************************************************************************)
EXTENDS Integers, Sequences, FiniteSets, TLC

(***************************************************************************)
(* Bounds of the model.  Time is counted in ticks; the workbook keeps      *)
(* 'Last Updated' with a resolution of one second.                         *)
(***************************************************************************)
MaxNow == 2
MaxBatch == 2
TicksPerSecond == 2

TicksPerDay == 24 * 3600 * TicksPerSecond

\* config.MARK_EXPIRED_DAYS, default of the environment variable
MARK_EXPIRED_DAYS == 0

\* The largest days_offset that is_date_expired is evaluated with.
MaxOffset == 2

\* The largest max_retries and the largest delay (in seconds) of a wrapper.
MaxRetries == 3
MaxDelay == 2

Statuses == {"Active", "Updated", "Expired"}

(***************************************************************************)
(* Event model                                                             *)
(***************************************************************************)

\* hashlib.md5(text).hexdigest()[:12]: the digest is kept symbolic, a tag
\* in front of the text that was hashed (distinct texts, distinct digests).
md5_12(text) == "md5:" \o text

generate_event_id(event_name, date, venue, city) ==
    md5_12(event_name \o "_" \o date \o "_" \o venue \o "_" \o city)

\* Faulty variant: the url is hashed in the place of the city.
Event_hashes_url(event_name, date, venue, city, category, url, source, status, last_updated, event_id) ==
    [event_id     |-> IF event_id = ""
                      THEN generate_event_id(event_name, date, venue, url)
                      ELSE event_id,
     event_name   |-> event_name,
     date         |-> date,
     venue        |-> venue,
     city         |-> city,
     category     |-> category,
     url          |-> url,
     source       |-> source,
     status       |-> status,
     last_updated |-> last_updated]

\* The dataclass constructor followed by __post_init__: an empty event_id
\* is replaced by the generated one.
Event(event_name, date, venue, city, category, url, source, status, last_updated, event_id) ==
    [event_id     |-> IF event_id = ""
                      THEN generate_event_id(event_name, date, venue, city)
                      ELSE event_id,
     event_name   |-> event_name,
     date         |-> date,
     venue        |-> venue,
     city         |-> city,
     category     |-> category,
     url          |-> url,
     source       |-> source,
     status       |-> status,
     last_updated |-> last_updated]

\* datetime.strftime('%Y-%m-%d %H:%M:%S'): the fraction of a second is cut.
strftime(t) == t \div TicksPerSecond

\* Event.to_dict: the row of the sheet.  last_updated is the formatted
\* string, here the number of whole seconds it denotes.
to_dict(e) == [e EXCEPT !.last_updated = strftime(e.last_updated)]

(***************************************************************************)
(* Expiry evaluator                                                        *)
(***************************************************************************)
DateStrings == {"2020-01-01", "2999-01-01", "TBA"}

\* parse_date over the date strings of the model: None for text dateutil
\* cannot parse, a naive datetime, or a timezone-aware datetime.  The clock
\* starts at 2026-01-10 00:00:00 and a date without a time is its midnight;
\* the year 2999 stands for an instant later than every threshold.
parse_date(date_string) ==
    CASE date_string = "2020-01-01" -> [kind |-> "naive", t |-> 0 - 2201 * TicksPerDay]
      [] date_string = "2026-01-08" -> [kind |-> "naive", t |-> 0 - 2 * TicksPerDay]
      [] date_string = "2026-01-10" -> [kind |-> "naive", t |-> 0]
      [] date_string = "2026-01-11" -> [kind |-> "naive", t |-> TicksPerDay]
      [] date_string = "2999-01-01" -> [kind |-> "naive", t |-> 1000 * TicksPerDay]
      [] date_string = "2020-01-01T00:00:00Z" -> [kind |-> "aware", t |-> 0 - 2201 * TicksPerDay]
      [] date_string = "2026-01-10T00:00:00Z" -> [kind |-> "aware", t |-> 0]
      [] OTHER -> [kind |-> "None", t |-> 0]

timedelta(days) == days * TicksPerDay

\* date_obj < threshold_date raises TypeError when date_obj is aware and
\* the threshold (datetime.now() + timedelta) is naive.
is_date_expired_raises(date_string) == parse_date(date_string).kind = "aware"

is_date_expired(date_string, days_offset, t) ==
    LET date_obj == parse_date(date_string)
    IN  IF date_obj.kind = "None"
        THEN FALSE
        ELSE date_obj.t < t + timedelta(days_offset)

(***************************************************************************)
(* BaseStorage: deduplicate_events and merge_events                        *)
(***************************************************************************)
ids(events) == {events[i].event_id : i \in 1..Len(events)}

\* Faulty variant: an event is dropped when an equal record exists, whatever
\* the ids.
deduplicate_events_by_record(new_events, existing_events) ==
    LET Fresh(e) == \A i \in 1..Len(existing_events) : existing_events[i] # e
    IN  SelectSeq(new_events, Fresh)

deduplicate_events(new_events, existing_events) ==
    LET existing_ids == ids(existing_events)
        Fresh(e) == e.event_id \notin existing_ids
    IN  SelectSeq(new_events, Fresh)

\* Position of the record with this event_id in the dict's value list, 0
\* when the key is absent.
IndexOf(values, event_id) ==
    IF \E i \in 1..Len(values) : values[i].event_id = event_id
    THEN CHOOSE i \in 1..Len(values) : values[i].event_id = event_id
    ELSE 0

\* {event.event_id: event for event in existing_events}: a later record
\* replaces an earlier one with the same key, at the earlier one's place.
RECURSIVE DictOf(_)
DictOf(events) ==
    IF events = <<>>
    THEN <<>>
    ELSE LET front == DictOf(SubSeq(events, 1, Len(events) - 1))
             e     == events[Len(events)]
             i     == IndexOf(front, e.event_id)
         IN  IF i = 0 THEN Append(front, e) ELSE [front EXCEPT ![i] = e]

\* Faulty variant of the loop body: an update takes over the incoming record.
MergeOne_replaces(event_dict, event) ==
    LET i == IndexOf(event_dict, event.event_id)
    IN  IF i # 0
        THEN [event_dict EXCEPT ![i] = [event EXCEPT !.status = "Updated"]]
        ELSE Append(event_dict, event)

\* Faulty variant of the loop body: a new record is inserted as "Active".
MergeOne_forces_active(event_dict, event) ==
    LET i == IndexOf(event_dict, event.event_id)
    IN  IF i # 0
        THEN [event_dict EXCEPT ![i].status = "Updated",
                                ![i].last_updated = event.last_updated]
        ELSE Append(event_dict, [event EXCEPT !.status = "Active"])

\* Faulty variant of the loop body: an update copies the incoming status.
MergeOne_copies_status(event_dict, event) ==
    LET i == IndexOf(event_dict, event.event_id)
    IN  IF i # 0
        THEN [event_dict EXCEPT ![i].status = event.status,
                                ![i].last_updated = event.last_updated]
        ELSE Append(event_dict, event)

\* Faulty variant of the loop body: no lookup, every record is added.
MergeOne_appends(event_dict, event) == Append(event_dict, event)

\* One iteration of the loop of merge_events.
MergeOne(event_dict, event) ==
    LET i == IndexOf(event_dict, event.event_id)
    IN  IF i # 0
        THEN [event_dict EXCEPT ![i].status = "Updated",
                                ![i].last_updated = event.last_updated]
        ELSE Append(event_dict, event)

RECURSIVE MergeLoop(_, _)
MergeLoop(event_dict, new_events) ==
    IF new_events = <<>>
    THEN event_dict
    ELSE MergeLoop(MergeOne(event_dict, Head(new_events)), Tail(new_events))

\* Faulty variant: the dict is not seeded with the existing events.
merge_events_unseeded(new_events, existing_events) ==
    MergeLoop(<<>>, new_events)

merge_events(new_events, existing_events) ==
    MergeLoop(DictOf(existing_events), new_events)

(***************************************************************************)
(* ExcelStorage over one workbook                                          *)
(***************************************************************************)
VARIABLES
    file,          \* the data rows of the "Events" sheet, below the header row
    now,           \* the clock, in ticks
    last,          \* the last call on the storage and what it returned
    batch_in,      \* merge_events on its own: the new events,
    existing_in,   \*   the existing events,
    merged_once,   \*   merge_events(batch_in, existing_in),
    merged_twice,  \*   merge_events(batch_in, merged_once),
    deduped,       \*   deduplicate_events(batch_in, existing_in)
    pc,            \*   and how far the evaluation is
    before,        \* the data rows as they were when the last call began
    arg,           \* what the last call was handed
    date_string,   \* is_date_expired on its own: the date string,
    days_offset,   \*   the offset in days
    expired,       \*   and what the call gave
    key_fields,    \* Event(...) on its own: event_name, date, venue and city,
    rest_a,        \*   the other fields of one record
    rest_b,        \*   and of another one,
    built,         \*   and the records built from them so far
    loaded,        \* what a load_events call after the last call returned
    cycle,         \* run_once: where it stands, what it scraped, saved and did
    writers,       \* two save_events calls in progress on the one workbook
    sheet,         \* the worksheet of GoogleSheetsStorage: header row and data rows
    retry          \* one call of a function wrapped by retry_on_failure

storage_vars == <<file, now, last>>
merge_vars == <<batch_in, existing_in, merged_once, merged_twice, deduped, pc>>
hist_vars == <<before, arg>>
expiry_vars == <<date_string, days_offset, expired>>
id_vars == <<key_fields, rest_a, rest_b, built>>
aux_vars == <<expiry_vars, id_vars, loaded, cycle, writers, sheet, retry>>
vars == <<file, now, last, batch_in, existing_in, merged_once, merged_twice, deduped, pc, before, arg, aux_vars>>

\* The variables of a function that is not being evaluated.
ExpiryIdle == date_string = "" /\ days_offset = 0 /\ expired = "pending"

NoKeyFields == [event_name |-> "", date |-> "", venue |-> "", city |-> ""]

NoRest == [category |-> "", url |-> "", source |-> "", status |-> "", last_updated |-> 0]

IdIdle == key_fields = NoKeyFields /\ rest_a = NoRest /\ rest_b = NoRest /\ built = <<>>

NotLoaded == [done |-> FALSE, events |-> <<>>]

\* run_once has not been entered.
NoCycle ==
    [pc |-> "start", events |-> <<>>, saved |-> FALSE, ret |-> 0, writes |-> 0,
     steps |-> <<>>]

Writers == {1, 2}

\* Neither save_events call has begun.
NoWriters ==
    [w \in Writers |->
        [pc |-> "idle", events |-> <<>>, merged |-> <<>>, ret |-> FALSE,
         overlapped |-> FALSE]]

\* A worksheet with the header row and no data rows.
NewSheet == [header |-> TRUE, rows |-> <<>>]

\* The wrapper on entry: max_retries, delay, and for each invocation of
\* the wrapped function whether it raises; nothing invoked yet.
Wrapper(max_retries, delay, raises) ==
    [max_retries |-> max_retries, delay |-> delay, raises |-> raises,
     pc |-> "call", attempt |-> 0, last_exception |-> 0, calls |-> 0,
     slept |-> <<>>, result |-> [kind |-> "pending", of |-> 0]]

NoRetry == Wrapper(0, 0, <<>>)

AuxIdle ==
    /\ ExpiryIdle /\ IdIdle /\ loaded = NotLoaded /\ cycle = NoCycle
    /\ writers = NoWriters /\ sheet = NewSheet /\ retry = NoRetry

\* A cell read back from the workbook: an empty string is stored as an
\* empty cell, which reads as None, and str(None) is "None".
str_cell(c) == IF c = "" THEN "None" ELSE c

RowIsBlank(row) ==
    /\ row.event_id = "" /\ row.event_name = "" /\ row.date = ""
    /\ row.venue = "" /\ row.city = "" /\ row.category = ""
    /\ row.url = "" /\ row.source = "" /\ row.status = ""

\* Faulty variant: 'Status' is not read either, the dataclass default
\* "Active" is taken.
load_events_default_status(f, t, load_fails) ==
    IF load_fails
    THEN <<>>
    ELSE LET NotBlank(row) == ~RowIsBlank(row)
             rows == SelectSeq(f, NotBlank)
         IN  [i \in 1..Len(rows) |->
                 Event(str_cell(rows[i].event_name), str_cell(rows[i].date),
                       str_cell(rows[i].venue), str_cell(rows[i].city),
                       str_cell(rows[i].category), str_cell(rows[i].url),
                       str_cell(rows[i].source), "Active",
                       t, str_cell(rows[i].event_id))]

\* Faulty variant: a failing load_workbook goes unnoticed and the rows are
\* returned as they were last read.
load_events_stale(f, t, load_fails) ==
    LET NotBlank(row) == ~RowIsBlank(row)
        rows == SelectSeq(f, NotBlank)
    IN  [i \in 1..Len(rows) |->
            Event(str_cell(rows[i].event_name), str_cell(rows[i].date),
                  str_cell(rows[i].venue), str_cell(rows[i].city),
                  str_cell(rows[i].category), str_cell(rows[i].url),
                  str_cell(rows[i].source), str_cell(rows[i].status),
                  t, str_cell(rows[i].event_id))]

\* load_events: rows to Event objects.  'Last Updated' is not read: the
\* dataclass default, datetime.now(), is taken.  A failing load_workbook is
\* caught and the empty list returned.
load_events(f, t, load_fails) ==
    IF load_fails
    THEN <<>>
    ELSE LET NotBlank(row) == ~RowIsBlank(row)
             rows == SelectSeq(f, NotBlank)
         IN  [i \in 1..Len(rows) |->
                 Event(str_cell(rows[i].event_name), str_cell(rows[i].date),
                       str_cell(rows[i].venue), str_cell(rows[i].city),
                       str_cell(rows[i].category), str_cell(rows[i].url),
                       str_cell(rows[i].source), str_cell(rows[i].status),
                       t, str_cell(rows[i].event_id))]

\* Faulty variant: the sheet is overwritten with the events handed over.
SaveEvents_overwrites(f, events, t, load_fails, write_fails) ==
    IF write_fails
    THEN [file |-> f, ret |-> FALSE, wrote |-> 0, raised |-> FALSE]
    ELSE [file  |-> [i \in 1..Len(events) |-> to_dict(events[i])],
          ret   |-> TRUE,
          wrote |-> 1,
          raised |-> FALSE]

\* Faulty variant: no except clause, the exception of a failing wb.save
\* reaches the caller.
SaveEvents_unguarded(f, events, t, load_fails, write_fails) ==
    LET existing_events == load_events(f, t, load_fails)
        merged_events   == merge_events(events, existing_events)
    IN  IF write_fails
        THEN [file |-> f, ret |-> FALSE, wrote |-> 0, raised |-> TRUE]
        ELSE [file  |-> [i \in 1..Len(merged_events) |-> to_dict(merged_events[i])],
              ret   |-> TRUE,
              wrote |-> 1,
              raised |-> FALSE]

\* save_events: load, merge, write the whole sheet.  A failing wb.save is
\* caught and False returned.
SaveEvents(f, events, t, load_fails, write_fails) ==
    LET existing_events == load_events(f, t, load_fails)
        merged_events   == merge_events(events, existing_events)
    IN  IF write_fails
        THEN [file |-> f, ret |-> FALSE, wrote |-> 0, raised |-> FALSE]
        ELSE [file  |-> [i \in 1..Len(merged_events) |-> to_dict(merged_events[i])],
              ret   |-> TRUE,
              wrote |-> 1,
              raised |-> FALSE]

(***************************************************************************)
(* Inputs of the calls                                                     *)
(***************************************************************************)
\* What a scraper hands over (DistrictScraper.parse_event): status "Active",
\* last_updated the time of extraction.
ScrapedEvents(t) ==
    {Event("Event A", d, "Test Venue", "Mumbai", "Music", "https://example.com",
           "district", "Active", t, "") : d \in DateStrings}

\* What a caller of the storage interface may pass to update_event.
CallerEvents(t) ==
    {Event("Event A", d, "Test Venue", "Mumbai", "Music", "https://example.com",
           "district", s, t, "") : d \in DateStrings, s \in Statuses}

SeqsUpTo(S, n) == UNION {[1..k -> S] : k \in 0..n}

Batches(t) == SeqsUpTo(ScrapedEvents(t), MaxBatch)

EventIds == {e.event_id : e \in ScrapedEvents(0)}

\* load_workbook and wb.save may fail (a locked or unreadable file) or not.
Faults == BOOLEAN

(***************************************************************************)
(* The calls                                                               *)
(***************************************************************************)
\* ExcelStorage.__init__: a new workbook with the header row only.
StorageInit ==
    /\ file = <<>>
    /\ now = 0
    /\ last = [op |-> "init", n |-> 0, ret |-> TRUE, count |-> 0, wrote |-> 0,
               failed |-> FALSE, raised |-> FALSE]
    /\ before = <<>>
    /\ arg = [events |-> <<>>, event_id |-> ""]

Init ==
    /\ StorageInit
    /\ batch_in = <<>>
    /\ existing_in = <<>>
    /\ merged_once = <<>>
    /\ merged_twice = <<>>
    /\ deduped = <<>>
    /\ pc = "storage"
    /\ AuxIdle

\* Time passes between two calls.
Tick ==
    /\ now < MaxNow
    /\ now' = now + 1
    /\ UNCHANGED <<file, last>>
    /\ UNCHANGED merge_vars
    /\ UNCHANGED hist_vars
    /\ UNCHANGED aux_vars

\* The effect of a call: the workbook it leaves and what the caller sees
\* (n: the number of events handed over; ret: the Boolean returned, TRUE
\* where the call returns a count; count: the count returned, 0 where the
\* call returns a Boolean; raised: an exception reached the caller).
Called(op, n, r, failed) ==
    /\ file' = r.file
    /\ last' = [op     |-> op,
                n      |-> n,
                ret    |-> IF "ret" \in DOMAIN r THEN r.ret ELSE TRUE,
                count  |-> IF "count" \in DOMAIN r THEN r.count ELSE 0,
                wrote  |-> r.wrote,
                failed |-> failed,
                raised |-> r.raised]
    /\ UNCHANGED now
    /\ UNCHANGED merge_vars
    /\ UNCHANGED hist_vars
    /\ UNCHANGED aux_vars

save_events ==
    \E load_fails \in Faults, write_fails \in Faults :
      \E events \in Batches(now) :
        Called("save_events", Len(events),
               SaveEvents(file, events, now, load_fails, write_fails),
               load_fails \/ write_fails)

\* update_event: replace the first record with the event's id in the loaded
\* list, or append the event, and hand the list to save_events.
UpdateEvent(f, event, t, load_fails, save_load_fails, write_fails) ==
    LET events == load_events(f, t, load_fails)
        i      == IndexOf(events, event.event_id)
        edited == IF i # 0 THEN [events EXCEPT ![i] = event]
                           ELSE Append(events, event)
    IN  SaveEvents(f, edited, t, save_load_fails, write_fails)

update_event ==
    \E load_fails \in Faults, save_load_fails \in Faults, write_fails \in Faults :
      \E event \in CallerEvents(now) :
        Called("update_event", 1,
               UpdateEvent(file, event, now, load_fails, save_load_fails, write_fails),
               load_fails \/ save_load_fails \/ write_fails)

\* delete_event: drop the records with this id from the loaded list and
\* hand the list to save_events.
DeleteEvent(f, event_id, t, load_fails, save_load_fails, write_fails) ==
    LET events == load_events(f, t, load_fails)
        Other(e) == e.event_id # event_id
    IN  SaveEvents(f, SelectSeq(events, Other), t, save_load_fails, write_fails)

delete_event ==
    \E load_fails \in Faults, save_load_fails \in Faults, write_fails \in Faults :
      \E event_id \in EventIds :
        Called("delete_event", 0,
               DeleteEvent(file, event_id, now, load_fails, save_load_fails, write_fails),
               load_fails \/ save_load_fails \/ write_fails)

\* The condition of the sweep's loop for one loaded event.
IsSwept(event, t) ==
    event.status = "Active" /\ is_date_expired(event.date, MARK_EXPIRED_DAYS, t)

\* Faulty variant: the list is saved whatever the count.
MarkExpiredEvents_always_saves(f, t, load_fails, save_load_fails, write_fails) ==
    LET events == load_events(f, t, load_fails)
        marked == [i \in 1..Len(events) |->
                     IF IsSwept(events[i], t)
                     THEN [events[i] EXCEPT !.status = "Expired", !.last_updated = t]
                     ELSE events[i]]
        expired_count == Cardinality({i \in 1..Len(events) : IsSwept(events[i], t)})
        r == SaveEvents(f, marked, t, save_load_fails, write_fails)
    IN  [file |-> r.file, count |-> expired_count, wrote |-> r.wrote,
         raised |-> r.raised]

\* mark_expired_events: load, set the Active records with an expired date to
\* "Expired", and hand the whole list to save_events when any was set.  An
\* exception of the date comparison ends the call with 0, nothing written.
MarkExpiredEvents(f, t, load_fails, save_load_fails, write_fails) ==
    LET events == load_events(f, t, load_fails)
        raises == \E i \in 1..Len(events) :
                     /\ events[i].status = "Active"
                     /\ is_date_expired_raises(events[i].date)
        marked == [i \in 1..Len(events) |->
                     IF IsSwept(events[i], t)
                     THEN [events[i] EXCEPT !.status = "Expired", !.last_updated = t]
                     ELSE events[i]]
        expired_count == Cardinality({i \in 1..Len(events) : IsSwept(events[i], t)})
    IN  IF raises
        THEN [file |-> f, count |-> 0, wrote |-> 0, raised |-> FALSE]
        ELSE IF expired_count > 0
        THEN LET r == SaveEvents(f, marked, t, save_load_fails, write_fails)
             IN  [file |-> r.file, count |-> expired_count, wrote |-> r.wrote,
                  raised |-> r.raised]
        ELSE [file |-> f, count |-> expired_count, wrote |-> 0, raised |-> FALSE]

mark_expired_events ==
    \E load_fails \in Faults, save_load_fails \in Faults, write_fails \in Faults :
        Called("mark_expired_events", 0,
               MarkExpiredEvents(file, now, load_fails, save_load_fails, write_fails),
               load_fails \/ save_load_fails \/ write_fails)

Next ==
    \/ Tick
    \/ save_events
    \/ update_event
    \/ delete_event
    \/ mark_expired_events

Spec == Init /\ [][Next]_vars

(***************************************************************************)
(* merge_events on its own: the inputs are drawn from bounded sets, the    *)
(* existing events as load_events returns them (one record per event_id).  *)
(***************************************************************************)
MergeDates == {"2020-01-01", "TBA"}

NewEvents ==
    {Event("Event A", d, "Test Venue", "Mumbai", c, "https://example.com",
           "district", s, lu, "") :
        d \in MergeDates, c \in {"Music", "Comedy"}, s \in Statuses, lu \in {0, 1}}

ExistingEvents ==
    {Event("Event A", d, "Test Venue", "Mumbai", "Music", "https://example.com",
           "bookmyshow", s, 1, "") : d \in MergeDates, s \in Statuses}

ExistingSets ==
    {s \in SeqsUpTo(ExistingEvents, Cardinality(MergeDates)) :
        Cardinality(ids(s)) = Len(s)}

MergeInit ==
    /\ StorageInit
    /\ batch_in \in SeqsUpTo(NewEvents, MaxBatch)
    /\ existing_in \in ExistingSets
    /\ merged_once = <<>>
    /\ merged_twice = <<>>
    /\ deduped = <<>>
    /\ pc = "input"
    /\ AuxIdle

Merge ==
    /\ pc = "input"
    /\ merged_once' = merge_events(batch_in, existing_in)
    /\ pc' = "merged"
    /\ UNCHANGED <<batch_in, existing_in, merged_twice, deduped>>
    /\ UNCHANGED storage_vars
    /\ UNCHANGED hist_vars
    /\ UNCHANGED aux_vars

Remerge ==
    /\ pc = "merged"
    /\ merged_twice' = merge_events(batch_in, merged_once)
    /\ pc' = "remerged"
    /\ UNCHANGED <<batch_in, existing_in, merged_once, deduped>>
    /\ UNCHANGED storage_vars
    /\ UNCHANGED hist_vars
    /\ UNCHANGED aux_vars

\* deduplicate_events on the same inputs: a new list is built, the
\* arguments are read only.
Deduplicate ==
    /\ pc = "input"
    /\ deduped' = deduplicate_events(batch_in, existing_in)
    /\ pc' = "deduped"
    /\ UNCHANGED <<batch_in, existing_in, merged_once, merged_twice>>
    /\ UNCHANGED storage_vars
    /\ UNCHANGED hist_vars
    /\ UNCHANGED aux_vars

MergeNext ==
    \/ Merge
    \/ Remerge
    \/ Deduplicate

MergeSpec == MergeInit /\ [][MergeNext]_vars

(***************************************************************************)
(* The calls whose loads and writes succeed, with the rows as they were    *)
(* before the call and what the call was handed kept beside the result.    *)
(***************************************************************************)
HistDates == {"2020-01-01", "TBA"}

\* Batches handed to save_events: status "Active", last_updated the time of
\* the call or an earlier one.
StampedEvents(t) ==
    {Event("Event A", d, "Test Venue", "Mumbai", "Music", "https://example.com",
           "district", "Active", lu, "") : d \in HistDates, lu \in {0, t}}

\* Events handed to update_event.
EditedEvents(t) ==
    {Event("Event A", d, "Test Venue", "Mumbai", "Music", "https://example.com",
           "district", s, t, "") : d \in HistDates, s \in Statuses}

HistIds == {e.event_id : e \in StampedEvents(0)}

CalledFrom(op, events, event_id, r) ==
    /\ before' = file
    /\ arg' = [events |-> events, event_id |-> event_id]
    /\ file' = r.file
    /\ last' = [op     |-> op,
                n      |-> Len(events),
                ret    |-> IF "ret" \in DOMAIN r THEN r.ret ELSE TRUE,
                count  |-> IF "count" \in DOMAIN r THEN r.count ELSE 0,
                wrote  |-> r.wrote,
                failed |-> FALSE,
                raised |-> r.raised]
    /\ UNCHANGED now
    /\ UNCHANGED merge_vars
    /\ UNCHANGED aux_vars

SaveCall ==
    \E events \in SeqsUpTo(StampedEvents(now), MaxBatch) :
        CalledFrom("save_events", events, "",
                   SaveEvents(file, events, now, FALSE, FALSE))

UpdateCall ==
    \E event \in EditedEvents(now) :
        CalledFrom("update_event", <<event>>, event.event_id,
                   UpdateEvent(file, event, now, FALSE, FALSE, FALSE))

DeleteCall ==
    \E event_id \in HistIds :
        CalledFrom("delete_event", <<>>, event_id,
                   DeleteEvent(file, event_id, now, FALSE, FALSE, FALSE))

SweepCall ==
    CalledFrom("mark_expired_events", <<>>, "",
               MarkExpiredEvents(file, now, FALSE, FALSE, FALSE))

HistNext ==
    \/ Tick
    \/ SaveCall
    \/ UpdateCall
    \/ DeleteCall
    \/ SweepCall

HistSpec == Init /\ [][HistNext]_vars

(***************************************************************************)
(* is_date_expired on its own, at any time of the clock                    *)
(***************************************************************************)
MergeIdle ==
    /\ batch_in = <<>>
    /\ existing_in = <<>>
    /\ merged_once = <<>>
    /\ merged_twice = <<>>
    /\ deduped = <<>>
    /\ pc = "storage"

ExpiryDates ==
    {"2020-01-01", "2026-01-08", "2026-01-10", "2026-01-11", "TBA", "",
     "2026-01-10T00:00:00Z"}

\* What a caller of is_date_expired gets: the Boolean returned or the
\* exception of the comparison.
is_date_expired_call(ds, offset, t) ==
    IF is_date_expired_raises(ds)
    THEN "TypeError"
    ELSE IF is_date_expired(ds, offset, t) THEN "True" ELSE "False"

ExpiryInit ==
    /\ StorageInit
    /\ MergeIdle
    /\ date_string \in ExpiryDates
    /\ days_offset \in 0..MaxOffset
    /\ expired = "pending"
    /\ IdIdle
    /\ loaded = NotLoaded
    /\ cycle = NoCycle
    /\ writers = NoWriters
    /\ sheet = NewSheet
    /\ retry = NoRetry

Evaluate ==
    /\ expired = "pending"
    /\ expired' = is_date_expired_call(date_string, days_offset, now)
    /\ UNCHANGED <<date_string, days_offset>>
    /\ UNCHANGED storage_vars
    /\ UNCHANGED merge_vars
    /\ UNCHANGED hist_vars
    /\ UNCHANGED <<id_vars, loaded, cycle, writers, sheet, retry>>

ExpiryNext ==
    \/ Tick
    \/ Evaluate

ExpirySpec == ExpiryInit /\ [][ExpiryNext]_vars

(***************************************************************************)
(* The Event constructor on its own: two records with the same event_name, *)
(* date, venue and city, each with its own other fields                    *)
(***************************************************************************)
KeyFields ==
    [event_name : {"Sample Event", "Event A"}, date : {"2026-01-01", "TBA"},
     venue : {"Test Venue", "Hall"}, city : {"Mumbai", "Delhi"}]

RestFields ==
    [category : {"Music", "Comedy"},
     url : {"https://example.com", "https://example.com/2"},
     source : {"BookMyShow", "district"}, status : Statuses, last_updated : {0, 1}]

\* Event(...) without an event_id.
NewEvent(key, rest) ==
    Event(key.event_name, key.date, key.venue, key.city, rest.category, rest.url,
          rest.source, rest.status, rest.last_updated, "")

IdInit ==
    /\ StorageInit
    /\ MergeIdle
    /\ ExpiryIdle
    /\ key_fields \in KeyFields
    /\ rest_a \in RestFields
    /\ rest_b \in RestFields
    /\ built = <<>>
    /\ loaded = NotLoaded
    /\ cycle = NoCycle
    /\ writers = NoWriters
    /\ sheet = NewSheet
    /\ retry = NoRetry

Build ==
    /\ built = <<>>
    /\ built' = <<NewEvent(key_fields, rest_a), NewEvent(key_fields, rest_b)>>
    /\ UNCHANGED <<key_fields, rest_a, rest_b>>
    /\ UNCHANGED <<storage_vars, merge_vars, hist_vars, expiry_vars, loaded, cycle, writers, sheet, retry>>

\* The first record is built once more from the same inputs.
Rebuild ==
    /\ Len(built) = 2
    /\ built' = Append(built, NewEvent(key_fields, rest_a))
    /\ UNCHANGED <<key_fields, rest_a, rest_b>>
    /\ UNCHANGED <<storage_vars, merge_vars, hist_vars, expiry_vars, loaded, cycle, writers, sheet, retry>>

IdNext ==
    \/ Build
    \/ Rebuild

IdSpec == IdInit /\ [][IdNext]_vars

(***************************************************************************)
(* Save on a new workbook, then load                                       *)
(***************************************************************************)
\* What the scrapers hand over: the category is the text of an element of
\* the page (BookMyShowScraper), which may be empty.
ListedEvents(t) ==
    {Event("Event A", d, "Test Venue", "Mumbai", c, "https://example.com",
           "BookMyShow", "Active", t, "") : d \in HistDates, c \in {"Music", ""}}

FirstSave ==
    /\ last.op = "init"
    /\ \E events \in SeqsUpTo(ListedEvents(now), MaxBatch) :
         CalledFrom("save_events", events, "",
                    SaveEvents(file, events, now, FALSE, FALSE))

LoadCall ==
    /\ last.op = "save_events"
    /\ ~loaded.done
    /\ loaded' = [done |-> TRUE, events |-> load_events(file, now, FALSE)]
    /\ UNCHANGED <<storage_vars, merge_vars, hist_vars, expiry_vars, id_vars, cycle, writers, sheet, retry>>

RoundTripNext ==
    \/ Tick
    \/ FirstSave
    \/ LoadCall

RoundTripSpec == Init /\ [][RoundTripNext]_vars

(***************************************************************************)
(* run_once: scrape, save, sweep, one step at a time; the loads and the    *)
(* writes of the storage may fail                                          *)
(***************************************************************************)
CycleFrame == UNCHANGED <<now, last, arg, merge_vars, expiry_vars, id_vars, loaded, writers, sheet, retry>>

\* events.extend(scraper.scrape()) for every scraper.
Scrape ==
    /\ cycle.pc = "start"
    /\ \E events \in Batches(now) :
         cycle' = [NoCycle EXCEPT !.pc = "scraped", !.events = events,
                                  !.steps = <<"scrape">>]
    /\ before' = file
    /\ UNCHANGED file
    /\ CycleFrame

\* if not events: return 0
ReturnNoEvents ==
    /\ cycle.pc = "scraped"
    /\ cycle.events = <<>>
    /\ cycle' = [cycle EXCEPT !.pc = "returned", !.ret = 0]
    /\ UNCHANGED <<file, before>>
    /\ CycleFrame

\* storage.save_events(events)
CycleSave ==
    /\ cycle.pc = "scraped"
    /\ cycle.events # <<>>
    /\ \E load_fails \in Faults, write_fails \in Faults :
         LET r == SaveEvents(file, cycle.events, now, load_fails, write_fails)
         IN  /\ file' = r.file
             /\ cycle' = [cycle EXCEPT !.pc = "saved", !.saved = r.ret,
                                       !.writes = @ + r.wrote,
                                       !.steps = Append(@, "save_events")]
    /\ UNCHANGED before
    /\ CycleFrame

\* Faulty variant: the sweep does not depend on what save_events returned.
CycleSweep_regardless ==
    /\ cycle.pc = "saved"
    /\ \E load_fails \in Faults, save_load_fails \in Faults, write_fails \in Faults :
         LET r == MarkExpiredEvents(file, now, load_fails, save_load_fails, write_fails)
         IN  /\ file' = r.file
             /\ cycle' = [cycle EXCEPT !.pc = "returned", !.ret = Len(cycle.events),
                                       !.writes = @ + r.wrote,
                                       !.steps = Append(@, "mark_expired_events")]
    /\ UNCHANGED before
    /\ CycleFrame

\* if storage.save_events(events): storage.mark_expired_events();
\* return len(events)
CycleSweep ==
    /\ cycle.pc = "saved"
    /\ cycle.saved
    /\ \E load_fails \in Faults, save_load_fails \in Faults, write_fails \in Faults :
         LET r == MarkExpiredEvents(file, now, load_fails, save_load_fails, write_fails)
         IN  /\ file' = r.file
             /\ cycle' = [cycle EXCEPT !.pc = "returned", !.ret = Len(cycle.events),
                                       !.writes = @ + r.wrote,
                                       !.steps = Append(@, "mark_expired_events")]
    /\ UNCHANGED before
    /\ CycleFrame

\* save_events returned False: return 0
ReturnNotSaved ==
    /\ cycle.pc = "saved"
    /\ ~cycle.saved
    /\ cycle' = [cycle EXCEPT !.pc = "returned", !.ret = 0]
    /\ UNCHANGED <<file, before>>
    /\ CycleFrame

\* The program is run again.
NextRun ==
    /\ cycle.pc = "returned"
    /\ cycle' = NoCycle
    /\ UNCHANGED <<file, before>>
    /\ CycleFrame

CycleNext ==
    \/ Tick
    \/ Scrape
    \/ ReturnNoEvents
    \/ CycleSave
    \/ CycleSweep
    \/ ReturnNotSaved
    \/ NextRun

CycleSpec == Init /\ [][CycleNext]_vars

(***************************************************************************)
(* Two save_events calls on the same workbook without a lock: each loads   *)
(* and merges in one step and writes in a later one                        *)
(***************************************************************************)
RaceFrame == UNCHANGED <<now, last, hist_vars, merge_vars, expiry_vars, id_vars, loaded, cycle, sheet, retry>>

\* Faulty variant: the workbook is not loaded, the batch is merged with the
\* empty list.
BeginSave_skips_load(w) ==
    /\ writers[w].pc = "idle"
    /\ \E events \in Batches(now) :
         writers' = [writers EXCEPT ![w] =
                       [pc |-> "merged", events |-> events,
                        merged |-> merge_events(events, <<>>),
                        ret |-> FALSE,
                        overlapped |-> \E v \in Writers \ {w} : writers[v].pc = "merged"]]
    /\ UNCHANGED file
    /\ RaceFrame

\* existing_events = self.load_events(); merged_events = self.merge_events(
\* events, existing_events).  overlapped: the other call has loaded and not
\* written yet.
BeginSave(w) ==
    /\ writers[w].pc = "idle"
    /\ \E events \in Batches(now) :
         writers' = [writers EXCEPT ![w] =
                       [pc |-> "merged", events |-> events,
                        merged |-> merge_events(events, load_events(file, now, FALSE)),
                        ret |-> FALSE,
                        overlapped |-> \E v \in Writers \ {w} : writers[v].pc = "merged"]]
    /\ UNCHANGED file
    /\ RaceFrame

\* The sheet is written with the merged events; return True.
EndSave(w) ==
    /\ writers[w].pc = "merged"
    /\ file' = [i \in 1..Len(writers[w].merged) |-> to_dict(writers[w].merged[i])]
    /\ writers' = [writers EXCEPT ![w].pc = "done", ![w].ret = TRUE]
    /\ RaceFrame

RaceNext ==
    \/ Tick
    \/ \E w \in Writers : BeginSave(w)
    \/ \E w \in Writers : EndSave(w)

RaceSpec == Init /\ [][RaceNext]_vars

(***************************************************************************)
(* GoogleSheetsStorage: save_events writes with three calls of the API     *)
(* (clear, append_row, update), each of which may fail; load_events        *)
(***************************************************************************)
SheetFailures == {"none", "clear", "append_row", "update"}

\* _ensure_headers: a first row that is not the header row has the sheet
\* cleared and the header row appended.
ensure_headers(sh) == IF sh.header THEN sh ELSE NewSheet

\* GoogleSheetsStorage.load_events: get_all_records gives the data rows
\* under the header row (a text cell as its text, an empty cell as "");
\* 'Last Updated' is not read.
gs_load_events(sh, t) ==
    LET rows == ensure_headers(sh).rows
    IN  [i \in 1..Len(rows) |->
            Event(rows[i].event_name, rows[i].date, rows[i].venue, rows[i].city,
                  rows[i].category, rows[i].url, rows[i].source, rows[i].status,
                  t, rows[i].event_id)]

\* GoogleSheetsStorage.save_events with the API failing at fail_at: what
\* the worksheet holds when the exception is caught, and the result.
GsSaveEvents(sh, events, t, fail_at) ==
    LET merged_events == merge_events(events, gs_load_events(sh, t))
        values == [i \in 1..Len(merged_events) |-> to_dict(merged_events[i])]
    IN  CASE fail_at = "clear" ->
               [sheet |-> ensure_headers(sh), ret |-> FALSE]
          [] fail_at = "append_row" ->
               [sheet |-> [header |-> FALSE, rows |-> <<>>], ret |-> FALSE]
          [] fail_at = "update" /\ values # <<>> ->
               [sheet |-> NewSheet, ret |-> FALSE]
          [] OTHER ->
               [sheet |-> [header |-> TRUE, rows |-> values], ret |-> TRUE]

\* The batches handed to save_events.
SheetBatches(t) ==
    SeqsUpTo({e \in ScrapedEvents(t) : e.date \in HistDates}, MaxBatch)

SheetFrame == UNCHANGED <<file, now, merge_vars, expiry_vars, id_vars, cycle, writers, retry>>

GsSaveCall ==
    /\ \E events \in SheetBatches(now), fail_at \in SheetFailures :
         LET r == GsSaveEvents(sheet, events, now, fail_at)
         IN  /\ sheet' = r.sheet
             /\ arg' = [events |-> events, event_id |-> ""]
             /\ last' = [op |-> "save_events", n |-> Len(events), ret |-> r.ret,
                         count |-> 0, wrote |-> IF fail_at = "clear" THEN 0 ELSE 1,
                         failed |-> fail_at # "none", raised |-> FALSE]
    /\ before' = ensure_headers(sheet).rows
    /\ loaded' = NotLoaded
    /\ SheetFrame

GsLoadCall ==
    /\ last.op = "save_events"
    /\ ~loaded.done
    /\ loaded' = [done |-> TRUE, events |-> gs_load_events(sheet, now)]
    /\ sheet' = ensure_headers(sheet)
    /\ UNCHANGED <<last, hist_vars>>
    /\ SheetFrame

SheetNext ==
    \/ Tick
    \/ GsSaveCall
    \/ GsLoadCall

SheetSpec == Init /\ [][SheetNext]_vars

(***************************************************************************)
(* The sweep over a store that holds a date with a time zone               *)
(***************************************************************************)
\* DistrictScraper takes the date from the startDate of the page's JSON-LD
\* as it stands, an ISO date that may carry a time zone.
ZonedDates == {"2020-01-01", "2020-01-01T00:00:00Z", "2999-01-01"}

ZonedEvents(t) ==
    {Event("Event A", d, "Test Venue", "Mumbai", "Music", "https://example.com",
           "district", "Active", t, "") : d \in ZonedDates}

ZonedSave ==
    \E events \in SeqsUpTo(ZonedEvents(now), MaxBatch) :
        CalledFrom("save_events", events, "",
                   SaveEvents(file, events, now, FALSE, FALSE))

ZonedNext ==
    \/ Tick
    \/ ZonedSave
    \/ SweepCall

ZonedSpec == Init /\ [][ZonedNext]_vars

(***************************************************************************)
(* retry_on_failure: one call of the wrapper, statement by statement.  The *)
(* wrapped function returns or raises at each invocation, and sleep        *)
(* returns, so the wrapper always takes its next step.                     *)
(***************************************************************************)
RetryFrame ==
    UNCHANGED <<storage_vars, merge_vars, hist_vars, expiry_vars, id_vars, loaded,
                cycle, writers, sheet>>

RetryInit ==
    /\ StorageInit
    /\ MergeIdle
    /\ ExpiryIdle /\ IdIdle /\ loaded = NotLoaded /\ cycle = NoCycle
    /\ writers = NoWriters /\ sheet = NewSheet
    /\ \E max_retries \in 1..MaxRetries, delay \in 0..MaxDelay :
         \E raises \in [1..max_retries -> BOOLEAN] :
            retry = Wrapper(max_retries, delay, raises)

\* Faulty variant: the wrapper sleeps after the last failed attempt too.
Invoke_sleeps_always ==
    /\ retry.pc = "call"
    /\ retry.attempt < retry.max_retries
    /\ LET k == retry.attempt + 1
       IN  retry' = IF ~retry.raises[k]
                    THEN [retry EXCEPT !.calls = @ + 1, !.pc = "done",
                                       !.result = [kind |-> "return", of |-> k]]
                    ELSE [retry EXCEPT !.calls = @ + 1, !.last_exception = k,
                                       !.pc = "sleep"]
    /\ RetryFrame

\* One turn of the loop up to the sleep: return func(*args, **kwargs), or
\* in the except clause keep the exception and see whether to sleep.
Invoke ==
    /\ retry.pc = "call"
    /\ retry.attempt < retry.max_retries
    /\ LET k == retry.attempt + 1
       IN  retry' = IF ~retry.raises[k]
                    THEN [retry EXCEPT !.calls = @ + 1, !.pc = "done",
                                       !.result = [kind |-> "return", of |-> k]]
                    ELSE IF retry.attempt < retry.max_retries - 1
                    THEN [retry EXCEPT !.calls = @ + 1, !.last_exception = k,
                                       !.pc = "sleep"]
                    ELSE [retry EXCEPT !.calls = @ + 1, !.last_exception = k,
                                       !.attempt = @ + 1]
    /\ RetryFrame

\* time.sleep(delay * (attempt + 1)); continue
Sleep ==
    /\ retry.pc = "sleep"
    /\ retry' = [retry EXCEPT !.slept = Append(@, retry.delay * (retry.attempt + 1)),
                              !.attempt = @ + 1, !.pc = "call"]
    /\ RetryFrame

\* After the loop: if last_exception: raise last_exception
Exhausted ==
    /\ retry.pc = "call"
    /\ retry.attempt >= retry.max_retries
    /\ retry' = [retry EXCEPT !.pc = "done",
                              !.result = IF retry.last_exception # 0
                                         THEN [kind |-> "raise", of |-> retry.last_exception]
                                         ELSE [kind |-> "return_none", of |-> 0]]
    /\ RetryFrame

RetryNext ==
    \/ Invoke
    \/ Sleep
    \/ Exhausted

RetrySpec == RetryInit /\ [][RetryNext]_vars /\ WF_vars(RetryNext)

(***************************************************************************)
(* Properties of the persisted set (specification Spec)                    *)
(***************************************************************************)
\* The step is a call of op (the clock stands still during a call).
CallStep(op) == last'.op = op /\ now' = now

RecordOf(events, event_id) == events[IndexOf(events, event_id)]

StatusIn(events, event_id) == RecordOf(events, event_id).status

\* A persisted record that is "Active" with a date expired relative to
\* t + MARK_EXPIRED_DAYS.
ActiveAndExpired(row, t) ==
    row.status = "Active" /\ is_date_expired(row.date, MARK_EXPIRED_DAYS, t)

SweptRows(f, t) == {i \in 1..Len(f) : ActiveAndExpired(f[i], t)}

\* C1: a save_events or mark_expired_events call whose loads and writes
\* succeed keeps every event_id that was persisted before it; so an id that
\* is persisted after some call is persisted after every later such call.
C1_NeverDeletedImplicitly ==
    [][ ( /\ CallStep("save_events") \/ CallStep("mark_expired_events")
          /\ ~last'.failed )
        => ids(file) \subseteq ids(file') ]_vars

C1_Witness ==
    /\ last.op = "mark_expired_events"
    /\ ~last.failed
    /\ last.wrote = 1
    /\ Len(file) = Cardinality(EventIds)

\* C2: no two records of the persisted set share an event_id, whatever calls
\* were made and whatever they were handed.
C2_UniqueIds ==
    \A i, j \in 1..Len(file) : file[i].event_id = file[j].event_id => i = j

\* A batch of two events was saved and the set holds one record.
C2_Witness ==
    /\ last.op = "save_events"
    /\ last.ret
    /\ ~last.failed
    /\ last.n = 2
    /\ Len(file) = 1

\* C7, as claimed (for the calls whose loads and writes succeed): after a
\* sweep that returns n > 0, n is the number of records that were Active and
\* expired, and exactly these, besides those Expired before, are "Expired".
C7_SweepMarksExpired ==
    [][ ( /\ CallStep("mark_expired_events")
          /\ ~last'.failed
          /\ last'.count > 0 )
        => /\ last'.count = Cardinality(SweptRows(file, now))
           /\ \A i \in 1..Len(file) :
                /\ file[i].event_id \in ids(file')
                /\ StatusIn(file', file[i].event_id) = "Expired"
                     <=> (i \in SweptRows(file, now) \/ file[i].status = "Expired") ]_vars

\* C8, as claimed (for the calls whose loads and writes succeed): a sweep
\* leaves the status of every record that is "Updated" or "Expired" alone.
C8_SweepKeepsNonActive ==
    [][ ( /\ CallStep("mark_expired_events")
          /\ ~last'.failed )
        => \A i \in 1..Len(file) :
             file[i].status \in {"Updated", "Expired"}
             => /\ file[i].event_id \in ids(file')
                /\ StatusIn(file', file[i].event_id) = file[i].status ]_vars

\* C9, as claimed (for the calls whose loads and writes succeed): a sweep
\* leaves an "Active" record whose date is unparseable or not yet expired
\* "Active", and counts only the records that were Active and expired.
C9_SweepKeepsUnexpiredActive ==
    [][ ( /\ CallStep("mark_expired_events")
          /\ ~last'.failed )
        => /\ last'.count = Cardinality(SweptRows(file, now))
           /\ \A i \in 1..Len(file) :
                (file[i].status = "Active" /\ i \notin SweptRows(file, now))
                => /\ file[i].event_id \in ids(file')
                   /\ StatusIn(file', file[i].event_id) = "Active" ]_vars

\* C10: a sweep writes only when it counted at least one record; with a
\* count of 0 nothing is written and the persisted set is as it was.
C10_SweepWritesOnlyWhenCounted ==
    [][ CallStep("mark_expired_events")
        => /\ last'.wrote > 0 => last'.count > 0
           /\ last'.count = 0 => (last'.wrote = 0 /\ file' = file) ]_vars

\* A sweep over a set with Active records returned 0 and wrote nothing.
C10_Witness ==
    /\ last.op = "mark_expired_events"
    /\ last.count = 0
    /\ last.wrote = 0
    /\ ~last.failed
    /\ \E i \in 1..Len(file) : file[i].status = "Active"

(***************************************************************************)
(* Properties of merge_events (specification MergeSpec)                    *)
(***************************************************************************)
Occurrences(events, event_id) ==
    {i \in 1..Len(events) : events[i].event_id = event_id}

Maximum(S) == CHOOSE m \in S : \A n \in S : n <= m
Minimum(S) == CHOOSE m \in S : \A n \in S : m <= n

FirstWith(events, event_id) == events[Minimum(Occurrences(events, event_id))]
LastWith(events, event_id) == events[Maximum(Occurrences(events, event_id))]

\* C3, as claimed: every record of the batch whose id is in the existing set
\* finds the existing record in the result, "Updated" and with that incoming
\* record's last_updated.
C3_UpdateTakesEachTimestamp ==
    pc = "merged" =>
      \A i \in 1..Len(batch_in) :
        batch_in[i].event_id \in ids(existing_in)
        => \E j \in 1..Len(merged_once) :
             merged_once[j] =
               [RecordOf(existing_in, batch_in[i].event_id)
                  EXCEPT !.status = "Updated",
                         !.last_updated = batch_in[i].last_updated]

\* C3, amended: for every id of the batch that is in the existing set the
\* result holds one record, the existing one with status "Updated" and the
\* last_updated of the last record of the batch with that id.
C3_UpdateKeepsExistingFields ==
    pc = "merged" =>
      \A id \in ids(batch_in) \cap ids(existing_in) :
        /\ Cardinality(Occurrences(merged_once, id)) = 1
        /\ RecordOf(merged_once, id) =
             [RecordOf(existing_in, id)
                EXCEPT !.status = "Updated",
                       !.last_updated = LastWith(batch_in, id).last_updated]

\* The batch holds an existing id twice, with two timestamps and a category
\* the existing record does not have.
C3_Witness ==
    /\ pc = "merged"
    /\ Len(batch_in) = 2
    /\ batch_in[1].event_id = batch_in[2].event_id
    /\ batch_in[1].event_id \in ids(existing_in)
    /\ batch_in[1].last_updated # batch_in[2].last_updated
    /\ batch_in[2].category # RecordOf(existing_in, batch_in[2].event_id).category

\* C4, as claimed: every record of the batch whose id is not in the existing
\* set is in the result as it came.
C4_NewRecordAsIs ==
    pc = "merged" =>
      \A i \in 1..Len(batch_in) :
        batch_in[i].event_id \notin ids(existing_in)
        => \E j \in 1..Len(merged_once) : merged_once[j] = batch_in[i]

\* C4, amended: a record whose id is not in the existing set and occurs once
\* in the batch is in the result as it came; of an id that occurs more than
\* once the result holds the first record, with status "Updated" and the
\* last_updated of the last one.
C4_NewRecordAsIsWhenOnce ==
    pc = "merged" =>
      \A id \in ids(batch_in) \ ids(existing_in) :
        /\ Cardinality(Occurrences(merged_once, id)) = 1
        /\ RecordOf(merged_once, id) =
             IF Cardinality(Occurrences(batch_in, id)) = 1
             THEN FirstWith(batch_in, id)
             ELSE [FirstWith(batch_in, id)
                     EXCEPT !.status = "Updated",
                            !.last_updated = LastWith(batch_in, id).last_updated]

\* The batch holds a new id twice and another new id once.
C4_Witness ==
    /\ pc = "merged"
    /\ existing_in = <<>>
    /\ \E id \in ids(batch_in) : Cardinality(Occurrences(batch_in, id)) = 2
    /\ Len(merged_once) = 1
    /\ merged_once[1].status = "Updated"
    /\ batch_in[1].status = "Active"

\* C5: the result holds exactly one record for each id of the existing set
\* and of the batch, and none else; an existing record whose id is not in
\* the batch is returned as it was.
C5_MergeKeepsExisting ==
    pc = "merged" =>
      /\ ids(merged_once) = ids(existing_in) \cup ids(batch_in)
      /\ \A id \in ids(merged_once) : Cardinality(Occurrences(merged_once, id)) = 1
      /\ \A k \in 1..Len(existing_in) :
           existing_in[k].event_id \notin ids(batch_in)
           => \E j \in 1..Len(merged_once) : merged_once[j] = existing_in[k]

\* An existing record is absent from the batch, which brings a new id.
C5_Witness ==
    /\ pc = "merged"
    /\ Len(existing_in) = 1
    /\ Len(batch_in) = 2
    /\ existing_in[1].event_id \notin ids(batch_in)
    /\ Len(merged_once) = 2

\* C6, as claimed: merging the batch a second time gives the same ids and,
\* for each id, the same status as merging it once.
C6_SecondMergeSameStatus ==
    pc = "remerged" =>
      /\ ids(merged_twice) = ids(merged_once)
      /\ \A id \in ids(merged_once) :
           StatusIn(merged_twice, id) = StatusIn(merged_once, id)

\* C6, amended: the second merge gives the same ids, one record each; every
\* id of the batch is "Updated" after it and every other id keeps the
\* status of the first merge; a third merge changes no status.
C6_StatusStableAfterTwoMerges ==
    pc = "remerged" =>
      /\ ids(merged_twice) = ids(merged_once)
      /\ Len(merged_twice) = Cardinality(ids(merged_twice))
      /\ \A id \in ids(merged_once) :
           StatusIn(merged_twice, id) =
             IF id \in ids(batch_in) THEN "Updated" ELSE StatusIn(merged_once, id)
      /\ LET merged_thrice == merge_events(batch_in, merged_twice)
         IN  /\ ids(merged_thrice) = ids(merged_twice)
             /\ \A id \in ids(merged_twice) :
                  StatusIn(merged_thrice, id) = StatusIn(merged_twice, id)

\* A new Active record: "Active" after one merge, "Updated" after two.
C6_Witness ==
    /\ pc = "remerged"
    /\ existing_in = <<>>
    /\ Len(batch_in) = 1
    /\ merged_once[1].status = "Active"
    /\ merged_twice[1].status = "Updated"

\* The positions of new_events whose event_id does not occur in
\* existing_events.
KeptPositions(new_events, existing_events) ==
    {i \in 1..Len(new_events) :
        \A j \in 1..Len(existing_events) :
            existing_events[j].event_id # new_events[i].event_id}

\* The k-th smallest element of a set of positions.
Nth(positions, k) ==
    CHOOSE i \in positions : Cardinality({j \in positions : j <= i}) = k

\* C20: deduplicate_events(new, existing) leaves both arguments as they
\* were and returns the records of new whose event_id does not occur in
\* existing, each as often and in the order it stands in new; the result is
\* not longer than new.
C20_DeduplicateExact ==
    [][ pc' = "deduped" =>
          LET kept == KeptPositions(batch_in, existing_in)
          IN  /\ batch_in' = batch_in
              /\ existing_in' = existing_in
              /\ Len(deduped') = Cardinality(kept)
              /\ \A k \in 1..Len(deduped') : deduped'[k] = batch_in[Nth(kept, k)]
              /\ Len(deduped') <= Len(batch_in) ]_vars

\* A batch of two records with different ids, the first of them stored
\* already: the second one is returned.
C20_Witness ==
    /\ pc = "deduped"
    /\ Len(batch_in) = 2
    /\ batch_in[1].event_id # batch_in[2].event_id
    /\ batch_in[1].event_id \in ids(existing_in)
    /\ deduped = <<batch_in[2]>>

(***************************************************************************)
(* Failing loads and writes (specification Spec)                           *)
(***************************************************************************)
\* C17: no call lets an exception reach its caller, and save_events (and
\* update_event and delete_event, which return what save_events returns)
\* returns True exactly when the sheet was written, so False when the write
\* failed.
C17_FailuresAreResults ==
    /\ ~last.raised
    /\ last.op \in {"save_events", "update_event", "delete_event"}
         => (last.ret <=> last.wrote = 1)

\* A save_events call whose write failed returned False.
C17_Witness ==
    /\ last.op = "save_events"
    /\ last.n > 0
    /\ last.failed
    /\ ~last.ret
    /\ last.wrote = 0

Rows(events) == [i \in 1..Len(events) |-> to_dict(events[i])]

\* C18: a save_events call with a failure that returns True is one whose
\* load failed and whose write succeeded; the sheet then holds the batch
\* merged against the empty set, whatever it held before.
C18_FailedLoadMergesAgainstEmpty ==
    [][ ( /\ CallStep("save_events")
          /\ last'.failed
          /\ last'.ret )
        => /\ last'.wrote = 1
           /\ \E events \in Batches(now) :
                /\ Len(events) = last'.n
                /\ file' = Rows(merge_events(events, <<>>)) ]_vars

\* The load failed and the write succeeded: the sheet holds the one record
\* of the batch, as new.
C18_Witness ==
    /\ last.op = "save_events"
    /\ last.failed
    /\ last.ret
    /\ last.n = 1
    /\ Len(file) = 1
    /\ file[1].status = "Active"

\* C19, as claimed: a save_events call that returns True keeps every
\* event_id that was persisted before it, also when its load failed.
C19_TrueMeansNothingLost ==
    [][ (CallStep("save_events") /\ last'.ret)
        => ids(file) \subseteq ids(file') ]_vars

(***************************************************************************)
(* Properties of one call against the rows before it (HistSpec)            *)
(***************************************************************************)
\* The records of before whose status in file is another one.
Restated == {i \in 1..Len(before) :
               /\ before[i].event_id \in ids(file)
               /\ StatusIn(file, before[i].event_id) # before[i].status}

\* C11, as claimed: a save_events or mark_expired_events call changes the
\* status of a persisted record only from "Active" to "Updated", and then
\* by save_events with the record's event_id in the batch, or from "Active"
\* to "Expired", and then by mark_expired_events.
C11_OnlyForwardFromActive ==
    last.op \in {"save_events", "mark_expired_events"} =>
      \A i \in Restated :
        /\ before[i].status = "Active"
        /\ \/ /\ last.op = "save_events"
              /\ before[i].event_id \in ids(arg.events)
              /\ StatusIn(file, before[i].event_id) = "Updated"
           \/ /\ last.op = "mark_expired_events"
              /\ StatusIn(file, before[i].event_id) = "Expired"

\* C12: a save_events or mark_expired_events call leaves every record that
\* was "Updated" or "Expired" persisted with a status other than "Active",
\* also when the batch carries its event_id with status "Active"; so such a
\* record is never "Active" after any number of these calls.
C12_NeverBackToActive ==
    last.op \in {"save_events", "mark_expired_events"} =>
      \A i \in 1..Len(before) :
        before[i].status \in {"Updated", "Expired"} =>
          /\ before[i].event_id \in ids(file)
          /\ StatusIn(file, before[i].event_id) # "Active"

\* An "Expired" record whose event_id came back in a batch as "Active".
C12_Witness ==
    /\ last.op = "save_events"
    /\ last.ret
    /\ \E i \in 1..Len(before) :
         /\ before[i].status = "Expired"
         /\ \E k \in 1..Len(arg.events) :
              /\ arg.events[k].event_id = before[i].event_id
              /\ arg.events[k].status = "Active"
         /\ StatusIn(file, before[i].event_id) = "Updated"

\* C13, as claimed: after a save_events call, the last_updated persisted for
\* an event_id is not earlier than the one persisted before the call.
C13_LastUpdatedNeverEarlier ==
    last.op = "save_events" =>
      \A i \in 1..Len(before) :
        before[i].event_id \in ids(file) =>
          RecordOf(file, before[i].event_id).last_updated >= before[i].last_updated

\* C14, as claimed: after save_events([]) returned True on a non-empty set,
\* the rows are the rows before the call, 'Last Updated' included.
C14_EmptyBatchChangesNothing ==
    (last.op = "save_events" /\ arg.events = <<>> /\ last.ret /\ before # <<>>)
      => file = before

\* C15, as claimed: after delete_event(event_id) returned True no record
\* has that event_id, and every other record is still there with the status
\* it had.
C15_DeleteRemovesTheRecord ==
    (last.op = "delete_event" /\ last.ret) =>
      /\ arg.event_id \notin ids(file)
      /\ \A i \in 1..Len(before) :
           before[i].event_id # arg.event_id =>
             /\ before[i].event_id \in ids(file)
             /\ StatusIn(file, before[i].event_id) = before[i].status

SameFieldsAndStatus(row, event) ==
    /\ row.event_id = event.event_id /\ row.event_name = event.event_name
    /\ row.date = event.date /\ row.venue = event.venue /\ row.city = event.city
    /\ row.category = event.category /\ row.url = event.url
    /\ row.source = event.source /\ row.status = event.status

\* C16, as claimed: after update_event(event) returned True the record with
\* the event's id carries the event's fields and status, whether the id was
\* persisted before or not, and the other records keep their status.
C16_UpdateStoresTheEvent ==
    (last.op = "update_event" /\ last.ret) =>
      LET event == arg.events[1]
      IN  /\ event.event_id \in ids(file)
          /\ SameFieldsAndStatus(RecordOf(file, event.event_id), event)
          /\ \A i \in 1..Len(before) :
               before[i].event_id # event.event_id =>
                 /\ before[i].event_id \in ids(file)
                 /\ StatusIn(file, before[i].event_id) = before[i].status

(***************************************************************************)
(* Properties of is_date_expired (specification ExpirySpec)                *)
(***************************************************************************)
\* C21, as claimed: is_date_expired returns False when the date string does
\* not parse, and otherwise True exactly when the parsed date is earlier
\* than now + days_offset days.
C21_ExpiredIffBeforeThreshold ==
    [][ (expired = "pending" /\ expired' # "pending")
        => LET date_obj == parse_date(date_string)
           IN  expired' = IF date_obj.kind = "None"
                          THEN "False"
                          ELSE IF date_obj.t < now + days_offset * TicksPerDay
                               THEN "True"
                               ELSE "False" ]_vars

(***************************************************************************)
(* Properties of the Event constructor (specification IdSpec)              *)
(***************************************************************************)
\* C22: two records built with the same event_name, date, venue and city
\* have the same event_id whatever their category, url, source, status and
\* last_updated are, and a record built again from the same inputs has the
\* event_id it had.
C22_IdOfKeyFieldsOnly ==
    /\ Len(built) >= 2 => built[1].event_id = built[2].event_id
    /\ Len(built) = 3 => built[3].event_id = built[1].event_id

\* The two records differ in every field that is not a key field.
C22_Witness ==
    /\ Len(built) = 3
    /\ built[1].event_id = built[2].event_id
    /\ built[1].category # built[2].category
    /\ built[1].url # built[2].url
    /\ built[1].source # built[2].source
    /\ built[1].status # built[2].status
    /\ built[1].last_updated # built[2].last_updated

(***************************************************************************)
(* Properties of save and load (specification RoundTripSpec)               *)
(***************************************************************************)
\* C23, as claimed: after save_events(batch) returned True on an empty
\* store, load_events returns one record per event_id of the batch, with
\* the fields and the status of a record of the batch with that event_id.
C23_SaveLoadRoundTrip ==
    (loaded.done /\ last.ret) =>
      /\ ids(loaded.events) = ids(arg.events)
      /\ Len(loaded.events) = Cardinality(ids(arg.events))
      /\ \A i \in 1..Len(loaded.events) :
           \E k \in 1..Len(arg.events) :
               SameFieldsAndStatus(loaded.events[i], arg.events[k])

(***************************************************************************)
(* Properties of run_once (specification CycleSpec)                        *)
(***************************************************************************)
\* C24: the steps of a cycle are a prefix of scrape, save_events,
\* mark_expired_events; the sweep is in it only when save_events returned
\* True; a cycle that scraped no events ends after the scrape with 0 and
\* without a write, the rows being those of the start of the cycle; a cycle
\* whose save_events returned False ends with 0 and without a sweep.
C24_SweepOnlyAfterSave ==
    LET order == <<"scrape", "save_events", "mark_expired_events">>
        n     == Len(cycle.steps)
    IN  /\ n <= 3
        /\ cycle.steps = SubSeq(order, 1, n)
        /\ n = 3 => cycle.saved
        /\ (cycle.pc = "returned" /\ cycle.events = <<>>)
             => (n = 1 /\ cycle.writes = 0 /\ file = before /\ cycle.ret = 0)
        /\ (cycle.pc = "returned" /\ cycle.events # <<>> /\ ~cycle.saved)
             => (n = 2 /\ cycle.ret = 0)

\* A cycle of all three steps on a store that held records before it.
C24_Witness ==
    /\ cycle.pc = "returned"
    /\ cycle.steps = <<"scrape", "save_events", "mark_expired_events">>
    /\ cycle.saved
    /\ cycle.ret = Len(cycle.events)
    /\ before # <<>>

(***************************************************************************)
(* Properties of concurrent saves (specification RaceSpec)                 *)
(***************************************************************************)
BothReturnedTrue == \A w \in Writers : writers[w].pc = "done" /\ writers[w].ret

\* A record that one of the two calls wrote is not in the sheet.
LostUpdate == \E w \in Writers : ~(ids(writers[w].merged) \subseteq ids(file))

\* C25: when both calls have returned True and neither loaded while the
\* other stood between its load and its write, the sheet holds every record
\* either call wrote; a record is lost only when both loaded before either
\* wrote, and that interleaving exists (the witness).
C25_LostUpdateOnlyWhenInterleaved ==
    (BothReturnedTrue /\ LostUpdate) => \E w \in Writers : writers[w].overlapped

\* Both calls loaded the empty sheet, both returned True, and the record of
\* one of them is gone.
C25_Witness ==
    /\ BothReturnedTrue
    /\ \E w \in Writers : writers[w].overlapped
    /\ LostUpdate
    /\ \A w \in Writers : Len(writers[w].events) = 1

\* No loss when one call ran to its end before the other began.
C25_SerialWitness ==
    /\ BothReturnedTrue
    /\ \A w \in Writers : ~writers[w].overlapped
    /\ ~LostUpdate
    /\ Len(file) = 2

(***************************************************************************)
(* Properties of the Google Sheets backend (specification SheetSpec)       *)
(***************************************************************************)
\* C26, as claimed: when save_events returned False, the load_events that
\* follows returns the records that were persisted before the call.
C26_FailedSaveLeavesTheSet ==
    (last.op = "save_events" /\ ~last.ret /\ loaded.done) =>
      /\ Len(loaded.events) = Len(before)
      /\ \A i \in 1..Len(before) : SameFieldsAndStatus(before[i], loaded.events[i])

(***************************************************************************)
(* Properties of the sweep over zoned dates (specification ZonedSpec)      *)
(***************************************************************************)
\* The rows whose date raises in the sweep, and the Active rows whose date
\* is evaluated without an exception and is expired.
RaisingRows(f) ==
    {i \in 1..Len(f) : f[i].status = "Active" /\ is_date_expired_raises(f[i].date)}

ExpiredRows(f, t) ==
    {i \in 1..Len(f) : /\ f[i].status = "Active"
                       /\ ~is_date_expired_raises(f[i].date)
                       /\ is_date_expired(f[i].date, MARK_EXPIRED_DAYS, t)}

\* C27, as claimed: a sweep over a set in which the date of a record raises
\* lets no exception out, counts the other Active records with an expired
\* date and leaves them "Expired".
C27_SweepIsolatesRaisingRecord ==
    (last.op = "mark_expired_events" /\ RaisingRows(before) # {}) =>
      /\ ~last.raised
      /\ last.count = Cardinality(ExpiredRows(before, now))
      /\ \A i \in ExpiredRows(before, now) :
           /\ before[i].event_id \in ids(file)
           /\ StatusIn(file, before[i].event_id) = "Expired"

(***************************************************************************)
(* Properties of retry_on_failure (specification RetrySpec)                *)
(***************************************************************************)
\* The invocations that do not raise.
Successes == {k \in 1..retry.max_retries : ~retry.raises[k]}

\* The number of invocations the claim allows: up to the first one that
\* does not raise, all max_retries when every one raises.
Allowed ==
    IF Successes = {}
    THEN retry.max_retries
    ELSE CHOOSE k \in Successes : \A j \in Successes : k <= j

RetrySafe ==
    /\ retry.calls <= retry.max_retries
    /\ retry.pc = "done" =>
         /\ retry.calls = Allowed
         /\ retry.result = IF Successes = {}
                            THEN [kind |-> "raise", of |-> retry.max_retries]
                            ELSE [kind |-> "return", of |-> Allowed]
         /\ retry.slept = [k \in 1..(Allowed - 1) |-> retry.delay * k]

\* C28: the wrapped function is invoked at most max_retries times; the
\* wrapper returns what the first invocation that does not raise returned
\* and invokes no more, or raises the exception of the last invocation when
\* all max_retries raised; it has slept delay * k after the k-th failed
\* invocation that was followed by another one and not after the last; and
\* every call of the wrapper comes to its end.
C28_RetryBoundedAndTerminates == []RetrySafe /\ <>(retry.pc = "done")

\* All three invocations raised: the last exception is raised after two
\* sleeps.
C28_Witness ==
    /\ retry.pc = "done"
    /\ retry.max_retries = 3
    /\ retry.delay = 2
    /\ retry.calls = 3
    /\ retry.result = [kind |-> "raise", of |-> 3]
    /\ retry.slept = <<2, 4>>

====
